---------------------------- MODULE Spec2Model ----------------------------
(***************************************************************************)
(* Diarization scoring (spike_evaluate.py) and frame-label to segment      *)
(* reconstruction (spike_diarization_simple.py).                           *)
(*                                                                         *)
(* Times are integers in milliseconds.  Speaker ids are strings; Python's  *)
(* None is the string "None".  A dict is a TLA+ function; the empty dict   *)
(* is the function with the empty domain.  A float accuracy correct/total  *)
(* is the pair <<correct, total>>, compared by cross-multiplication (for   *)
(* the small counts modelled, IEEE division keeps distinct ratios apart    *)
(* and equal ratios equal).                                                *)
(***************************************************************************)
EXTENDS Integers, Sequences, FiniteSets, TLC

\* ------------------------------------------------------------------ bounds
\* longest frame grid passed to compute_accuracy / compute_der_components
MaxFrames == 3

\* longest frame grid passed to find_best_mapping
MaxAlignFrames == 2

\* longest segment list passed to segments_to_frames
MaxSegments == 2

\* longest array passed to labels_to_segments
MaxLen == 4

\* longest "segments" list of a file passed to evaluate
MaxEvalSegments == 1

\* most entries held at once by the label tool
MaxEntries == 3

\* ----------------------------------------------------------------- helpers
None == "None"

EmptyMapping == <<>>

Min2(a, b) == IF a <= b THEN a ELSE b

Max2(a, b) == IF a >= b THEN a ELSE b

SeqsUpTo(S, n) == UNION {[1..k -> S] : k \in 0..n}

DistinctSeqs(S) ==
    {s \in SeqsUpTo(S, Cardinality(S)) :
        \A i, j \in 1..Len(s) : i # j => s[i] # s[j]}

\* dict.get(key, default)
MapGet(m, key, default) == IF key \in DOMAIN m THEN m[key] ELSE default

\* dict(zip(keys, vals)): pairs up to the shorter length, a repeated key
\* keeps its last value
DictZip(keys, vals) ==
    LET n == Min2(Len(keys), Len(vals))
    IN  [k \in {keys[i] : i \in 1..n} |->
            vals[CHOOSE i \in 1..n :
                    keys[i] = k /\ \A j \in 1..n : keys[j] = k => j <= i]]

\* the list s without its element at index i
RemoveAt(s, i) == [j \in 1..(Len(s) - 1) |-> IF j < i THEN s[j] ELSE s[j + 1]]

RECURSIVE Flatten(_)
Flatten(ss) == IF ss = <<>> THEN <<>> ELSE Head(ss) \o Flatten(Tail(ss))

\* itertools.permutations(s, r) as the list of r-tuples, in itertools'
\* order (lexicographic in the positions of s)
RECURSIVE permutations(_, _)
permutations(s, r) ==
    IF r = 0 THEN << <<>> >>
    ELSE IF r > Len(s) THEN <<>>
    ELSE Flatten([i \in 1..Len(s) |->
            LET rest == permutations(RemoveAt(s, i), r - 1)
            IN  [j \in 1..Len(rest) |-> <<s[i]>> \o rest[j]]])

\* ------------------------------------------------------- float accuracies
\* correct / total if total > 0 else 0.0
Ratio(correct, total) == IF total > 0 THEN <<correct, total>> ELSE <<0, 1>>

FracGT(a, b) == a[1] * b[2] > b[1] * a[2]

FracEq(a, b) == a[1] * b[2] = b[1] * a[2]

\* ------------------------------------------------------- compute_accuracy
\* frames[i] if i < len(frames) else None  (i is 1-based here)
FrameAt(frames, i) == IF i <= Len(frames) THEN frames[i] ELSE None

\* AccuracyStep with the silence test of the prediction moved before
\* total += 1: a missed frame leaves the denominator alone
AccuracyStep_MissSkipsTotal(pf, gf, m, i, c) ==
    IF gf[i] = None THEN c
    ELSE LET pred_label == FrameAt(pf, i)
         IN  IF pred_label = None THEN c
             ELSE IF MapGet(m, pred_label, pred_label) = gf[i]
                  THEN <<c[1] + 1, c[2] + 1>>
                  ELSE <<c[1], c[2] + 1>>

\* AccuracyStep counting a false alarm (silent ground truth, speaking
\* prediction) in total
AccuracyStep_CountsFalseAlarm(pf, gf, m, i, c) ==
    LET pred_label == FrameAt(pf, i)
    IN  IF gf[i] = None
        THEN IF pred_label = None THEN c ELSE <<c[1], c[2] + 1>>
        ELSE IF pred_label = None THEN <<c[1], c[2] + 1>>
             ELSE IF MapGet(m, pred_label, pred_label) = gf[i]
                  THEN <<c[1] + 1, c[2] + 1>>
                  ELSE <<c[1], c[2] + 1>>

\* one iteration of compute_accuracy's loop, at ground-truth frame i, on the
\* counts c = <<correct, total>>
AccuracyStep(pf, gf, m, i, c) ==
    IF gf[i] = None THEN c
    ELSE LET pred_label == FrameAt(pf, i)
         IN  IF pred_label = None THEN <<c[1], c[2] + 1>>
             ELSE IF MapGet(m, pred_label, pred_label) = gf[i]
                  THEN <<c[1] + 1, c[2] + 1>>
                  ELSE <<c[1], c[2] + 1>>

RECURSIVE AccuracyLoop(_, _, _, _, _)
AccuracyLoop(pf, gf, m, i, c) ==
    IF i > Len(gf) THEN c
    ELSE AccuracyLoop(pf, gf, m, i + 1, AccuracyStep(pf, gf, m, i, c))

\* <<correct, total>> when compute_accuracy's loop ends
accuracy_counts(pf, gf, m) == AccuracyLoop(pf, gf, m, 1, <<0, 0>>)

compute_accuracy(pf, gf, m) ==
    LET c == accuracy_counts(pf, gf, m) IN Ratio(c[1], c[2])

\* ------------------------------------------------- compute_der_components
\* round(x, 2) of the percentage 100 * n / d, in hundredths of a percent:
\* the integer nearest to 10000 * n / d, a tie going to the even one (a tie
\* needs d to be a multiple of 32)
RoundPercent2(n, d) ==
    LET q == (10000 * n) \div d
        r == (10000 * n) % d
    IN  IF 2 * r < d THEN q
        ELSE IF 2 * r > d THEN q + 1
        ELSE IF q % 2 = 0 THEN q ELSE q + 1

\* DerStep leaving a missed frame out of total_speech
DerStep_MissNotSpeech(pf, gf, m, i, c) ==
    LET gt_label == FrameAt(gf, i)
        pred_label == FrameAt(pf, i)
    IN  IF gt_label # None
        THEN IF pred_label = None
             THEN <<c[1] + 1, c[2], c[3], c[4]>>
             ELSE IF MapGet(m, pred_label, pred_label) # gt_label
                  THEN <<c[1], c[2], c[3] + 1, c[4] + 1>>
                  ELSE <<c[1], c[2], c[3], c[4] + 1>>
        ELSE IF pred_label # None
             THEN <<c[1], c[2] + 1, c[3], c[4]>>
             ELSE c

\* one iteration of compute_der_components' loop, at frame i, on the counts
\* c = <<missed, false_alarm, confusion, total_speech>>
DerStep(pf, gf, m, i, c) ==
    LET gt_label == FrameAt(gf, i)
        pred_label == FrameAt(pf, i)
    IN  IF gt_label # None
        THEN IF pred_label = None
             THEN <<c[1] + 1, c[2], c[3], c[4] + 1>>
             ELSE IF MapGet(m, pred_label, pred_label) # gt_label
                  THEN <<c[1], c[2], c[3] + 1, c[4] + 1>>
                  ELSE <<c[1], c[2], c[3], c[4] + 1>>
        ELSE IF pred_label # None
             THEN <<c[1], c[2] + 1, c[3], c[4]>>
             ELSE c

\* DerLoop running over the ground-truth grid only
RECURSIVE DerLoop_GtLength(_, _, _, _, _)
DerLoop_GtLength(pf, gf, m, i, c) ==
    IF i > Len(gf) THEN c
    ELSE DerLoop_GtLength(pf, gf, m, i + 1, DerStep(pf, gf, m, i, c))

\* the loop of lines 161-175 from frame i on, over n_frames of line 159
RECURSIVE DerLoop(_, _, _, _, _)
DerLoop(pf, gf, m, i, c) ==
    IF i > Max2(Len(pf), Len(gf)) THEN c
    ELSE DerLoop(pf, gf, m, i + 1, DerStep(pf, gf, m, i, c))

\* DerPercent with false_alarm left out of the numerator
DerPercent_NoFalseAlarm(missed, false_alarm, confusion, total_speech) ==
    IF total_speech > 0
    THEN RoundPercent2(missed + confusion, total_speech)
    ELSE 0

\* the der of the returned dict, in hundredths of a percent
DerPercent(missed, false_alarm, confusion, total_speech) ==
    IF total_speech > 0
    THEN RoundPercent2(missed + false_alarm + confusion, total_speech)
    ELSE 0

compute_der_components(pf, gf, m) ==
    LET c == DerLoop(pf, gf, m, 1, <<0, 0, 0, 0>>)
    IN  [missed_speech |-> c[1],
         false_alarm |-> c[2],
         speaker_confusion |-> c[3],
         total_speech_frames |-> c[4],
         der |-> DerPercent(c[1], c[2], c[3], c[4])]

\* ----------------------------------------------- compute_confusion_matrix
\* the column "<miss>"
Miss == "<miss>"

\* the matrix with no cell incremented: a missing cell of the nested
\* defaultdict reads as 0; a matrix is a function from <<row, column>> to its
\* count
ZeroMatrix(rows, cols) == [cell \in rows \X cols |-> 0]

\* ConfusionStep without the "<miss>" cell of lines 138-139
ConfusionStep_SkipsMiss(pf, gf, m, i, mat) ==
    IF gf[i] = None THEN mat
    ELSE LET pred_label == FrameAt(pf, i)
         IN  IF pred_label = None THEN mat
             ELSE LET cell == <<gf[i], MapGet(m, pred_label, pred_label)>>
                  IN  [mat EXCEPT ![cell] = @ + 1]

\* one iteration of compute_confusion_matrix's loop, at ground-truth frame i
ConfusionStep(pf, gf, m, i, mat) ==
    IF gf[i] = None THEN mat
    ELSE LET pred_label == FrameAt(pf, i)
             cell == IF pred_label = None
                     THEN <<gf[i], Miss>>
                     ELSE <<gf[i], MapGet(m, pred_label, pred_label)>>
         IN  [mat EXCEPT ![cell] = @ + 1]

RECURSIVE ConfusionLoop(_, _, _, _, _)
ConfusionLoop(pf, gf, m, i, mat) ==
    IF i > Len(gf) THEN mat
    ELSE ConfusionLoop(pf, gf, m, i + 1, ConfusionStep(pf, gf, m, i, mat))

\* the matrix compute_confusion_matrix returns, on the rows and columns given
compute_confusion_matrix(pf, gf, m, rows, cols) ==
    ConfusionLoop(pf, gf, m, 1, ZeroMatrix(rows, cols))

\* ------------------------------------------------------ find_best_mapping
\* gt_voiced is non-empty
HasVoiced(gf) == \E i \in 1..Len(gf) : gf[i] # None

\* the candidate of the branch n_pred <= n_gt for the tuple perm
MappingPermGt(ps, perm) == DictZip(ps, perm)

\* MappingPermPred filling the ids left out with the last ground-truth id
MappingPermPred_FillLast(ps, gs, perm) ==
    LET zipped == DictZip(perm, gs)
    IN  [p \in (DOMAIN zipped) \cup {ps[i] : i \in 1..Len(ps)} |->
            IF p \in DOMAIN zipped THEN zipped[p] ELSE gs[Len(gs)]]

\* the candidate of the branch n_pred > n_gt for the tuple perm: the zip, and
\* every predicted id it leaves out set to gt_speakers[0]
MappingPermPred(ps, gs, perm) ==
    LET zipped == DictZip(perm, gs)
    IN  [p \in (DOMAIN zipped) \cup {ps[i] : i \in 1..Len(ps)} |->
            IF p \in DOMAIN zipped THEN zipped[p] ELSE gs[1]]

\* every candidate mapping of the search, in the order it is tried
Candidates(ps, gs) ==
    IF Len(ps) <= Len(gs)
    THEN LET perms == permutations(gs, Len(ps))
         IN  [k \in 1..Len(perms) |-> MappingPermGt(ps, perms[k])]
    ELSE LET perms == permutations(ps, Len(gs))
         IN  [k \in 1..Len(perms) |-> MappingPermPred(ps, gs, perms[k])]

\* the loops of lines 79-84 and 87-96 from candidate k on; best is the pair
\* <<best_mapping, best_accuracy>>
RECURSIVE BestFrom(_, _, _, _, _)
BestFrom(cs, pf, gf, k, best) ==
    IF k > Len(cs) THEN best
    ELSE LET acc == compute_accuracy(pf, gf, cs[k])
         IN  BestFrom(cs, pf, gf, k + 1,
                      IF FracGT(acc, best[2]) THEN <<cs[k], acc>> ELSE best)

\* the pair find_best_mapping returns
find_best_mapping(ps, gs, pf, gf) ==
    IF Len(ps) = 0 \/ Len(gs) = 0 THEN <<EmptyMapping, <<0, 1>>>>
    ELSE IF ~HasVoiced(gf) THEN <<EmptyMapping, <<1, 1>>>>
    ELSE BestFrom(Candidates(ps, gs), pf, gf, 1, <<EmptyMapping, <<0, 1>>>>)

\* ----------------------------------------------------- segments_to_frames
\* frame_size, in milliseconds
FrameSizeMs == 100

Abs(x) == IF x >= 0 THEN x ELSE -x

\* the multiples t of 50 ms, up to 3000, for which the IEEE double quotient
\* (t / 1000) / 0.1 falls just below the integer t / 100 (0.3 / 0.1 is
\* 2.9999999999999996); every other multiple of 50 ms in that range has the
\* exact quotient or one with the same int() and ceil()
QuotientBelow == {300, 600, 700, 1200, 1400, 1900, 2300, 2400, 2800, 2900}

\* int(t / frame_size): int() truncates the float quotient toward zero
IntQuotient(t) ==
    LET a == Abs(t)
        q == (a \div FrameSizeMs) - (IF a \in QuotientBelow THEN 1 ELSE 0)
    IN  IF t >= 0 THEN q ELSE -q

\* int(np.ceil(t / frame_size))
CeilQuotient(t) ==
    IF t >= 0 THEN (t + FrameSizeMs - 1) \div FrameSizeMs
    ELSE -IntQuotient(-t)

\* the 1-based position that Python's frames[i] addresses in a list of n
\* elements, a negative i counting from the end; 0 stands for IndexError
PyIndex(n, i) ==
    IF 0 <= i /\ i < n THEN i + 1
    ELSE IF -n <= i /\ i < 0 THEN n + i + 1
    ELSE 0

\* range(start_frame, min(end_frame, num_frames)) of one segment
SegmentRange(seg, num_frames) ==
    IntQuotient(seg.start) .. (Min2(CeilQuotient(seg.end), num_frames) - 1)

\* the inner loop raises IndexError (at its first index)
SegmentRaises(fr, seg, num_frames) ==
    \E i \in SegmentRange(seg, num_frames) : PyIndex(Len(fr), i) = 0

\* the inner loop of one segment, when no index is out of range
WriteSegment(fr, seg, num_frames) ==
    LET written == {PyIndex(Len(fr), i) : i \in SegmentRange(seg, num_frames)}
    IN  [k \in 1..Len(fr) |-> IF k \in written THEN seg.speaker ELSE fr[k]]

\* the loop of lines 40-45 from segment k on: the grid, or the IndexError of
\* line 45
RECURSIVE FramesFrom(_, _, _, _)
FramesFrom(fr, segs, k, num_frames) ==
    IF k > Len(segs) THEN [raised |-> FALSE, frames |-> fr]
    ELSE IF SegmentRaises(fr, segs[k], num_frames)
         THEN [raised |-> TRUE, frames |-> fr]
         ELSE FramesFrom(WriteSegment(fr, segs[k], num_frames), segs, k + 1,
                         num_frames)

\* what segments_to_frames(segs, dur) does: raise, or return the grid frames
segments_to_frames(segs, dur) ==
    LET num_frames == CeilQuotient(dur)
    IN  FramesFrom([k \in 1..num_frames |-> None], segs, 1, num_frames)

\* ----------------------------------------------------- labels_to_segments
\* f"SPEAKER_{label:02d}" for the cluster ids of the model
SpeakerLabel(label) ==
    CASE label = 0 -> "SPEAKER_00"
      [] label = 1 -> "SPEAKER_01"

\* segment_start is None, or a time
NoTime == <<>>

TimeOf(t) == <<t>>

\* hop_length / 2 (the hops of the model are even numbers of milliseconds)
HalfHop(hop) == hop \div 2

\* the threshold of the gap merge, in milliseconds
GapThresholdMs == 300

\* the multiples e of 25 ms, up to 3000, for which the IEEE double difference
\* (e + 300) / 1000 - e / 1000 is below the double 0.3 (0.7 - 0.4 is
\* 0.29999999999999993); for every other e in that range the difference is
\* 0.3 or above it.  A difference that is not 300 ms compares with 0.3 as the
\* exact numbers do.
GapRoundsBelow ==
    {275, 400, 525, 550, 650, 675, 725, 775, 850, 900, 975, 1100, 1225, 1350,
     1475, 1600, 1725, 1750, 1850, 1875, 1975, 2000, 2075, 2100, 2125, 2200,
     2225, 2250, 2325, 2350, 2375, 2450, 2475, 2500, 2575, 2600, 2625, 2700,
     2725, 2750, 2825, 2850, 2875, 2950, 2975, 3000}

\* gap = seg["start"] - merged[-1]["end"]; gap < 0.3, on doubles
GapBelowThreshold(start, end) ==
    IF start - end = GapThresholdMs THEN end \in GapRoundsBelow
    ELSE start - end < GapThresholdMs

\* MergeInto with a threshold of 0.2 s
MergeInto_Threshold200(m, seg) ==
    IF /\ m # <<>>
       /\ m[Len(m)].speaker = seg.speaker
       /\ seg.start - m[Len(m)].end < 200
    THEN [m EXCEPT ![Len(m)].end = seg.end]
    ELSE Append(m, seg)

\* MergeInto joining a segment to the previous one of its speaker whatever
\* the gap
MergeInto_AnyGap(m, seg) ==
    IF /\ m # <<>>
       /\ m[Len(m)].speaker = seg.speaker
    THEN [m EXCEPT ![Len(m)].end = seg.end]
    ELSE Append(m, seg)

\* one iteration of the merge loop: the list merged after seg is handled
MergeInto(m, seg) ==
    IF /\ m # <<>>
       /\ m[Len(m)].speaker = seg.speaker
       /\ GapBelowThreshold(seg.start, m[Len(m)].end)
    THEN [m EXCEPT ![Len(m)].end = seg.end]
    ELSE Append(m, seg)

\* the merge pass of lines 169-176 applied to a segment list
RECURSIVE MergePassFrom(_, _, _)
MergePassFrom(m, segs, j) ==
    IF j > Len(segs) THEN m
    ELSE MergePassFrom(MergeInto(m, segs[j]), segs, j + 1)

MergePass(segs) == MergePassFrom(<<>>, segs, 1)

\* one iteration of the loop of lines 133-158 on the locals st (current
\* speaker, segment start, segments), at a frame with centre t
LtsStep(st, label, t, is_speech, hop) ==
    LET closed == Append(st.segs, [speaker |-> st.cur,
                                   start |-> st.start[1],
                                   end |-> t - HalfHop(hop)])
    IN  IF is_speech
        THEN IF SpeakerLabel(label) # st.cur
             THEN [cur |-> SpeakerLabel(label),
                   start |-> TimeOf(t - HalfHop(hop)),
                   segs |-> IF st.cur # None THEN closed ELSE st.segs]
             ELSE st
        ELSE IF st.cur # None
             THEN [cur |-> None, start |-> NoTime, segs |-> closed]
             ELSE st

RECURSIVE LtsLoop(_, _, _, _, _, _)
LtsLoop(st, ls, ts, mask, hop, i) ==
    IF i > Min2(Len(ls), Min2(Len(mask), Len(ts))) THEN st
    ELSE LtsLoop(LtsStep(st, ls[i], ts[i], mask[i], hop), ls, ts, mask, hop,
                 i + 1)

\* the list labels_to_segments returns
labels_to_segments(ls, ts, mask, hop) ==
    LET st == LtsLoop([cur |-> None, start |-> NoTime, segs |-> <<>>],
                      ls, ts, mask, hop, 1)
        segs == IF st.cur # None
                THEN Append(st.segs, [speaker |-> st.cur,
                                      start |-> st.start[1],
                                      end |-> ts[Len(ts)] + HalfHop(hop)])
                ELSE st.segs
    IN  MergePass(segs)

VARIABLES
    pc,              \* where the running function stands
    pred_speakers,   \* find_best_mapping's arguments
    gt_speakers,
    pred_frames,
    gt_frames,
    perm_k,          \* 1-based position of the loop over permutations(...)
    best_mapping,
    best_accuracy,
    cand,            \* the mapping and acc of the last loop iteration
    mapping,         \* what find_best_mapping returned
    accuracy,
    der_components,  \* what compute_der_components returned for it
    segments,        \* segments_to_frames' arguments
    duration,
    frames,          \* segments_to_frames' list
    seg_i,           \* 1-based position of its loop over segments
    labels,          \* labels_to_segments' arguments
    times,
    speech_mask,
    hop_length,
    frame_i,         \* 1-based position of its loop over the zipped frames
    current_speaker,
    segment_start,
    lts_segments,    \* its list "segments"
    merged,
    merge_j,         \* 1-based position of the merge loop over that list
    confusion,       \* what compute_confusion_matrix returned
    pred_segments,   \* evaluate: the "segments" of the two loaded files
    gt_segments,
    result,          \* evaluate's returned dict
    tool_segments,   \* create_labels_interactive: main's list "segments"
    speakers_seen,
    total_duration,
    output           \* the dict it writes

alignVars == <<pred_speakers, gt_speakers, pred_frames, gt_frames, perm_k,
               best_mapping, best_accuracy, cand, mapping, accuracy,
               der_components>>

frameVars == <<segments, duration, frames, seg_i>>

ltsVars == <<labels, times, speech_mask, hop_length, frame_i, current_speaker,
             segment_start, lts_segments, merged, merge_j>>

evalVars == <<confusion, pred_segments, gt_segments, result>>

toolVars == <<tool_segments, speakers_seen, total_duration, output>>

vars == <<pc, alignVars, frameVars, ltsVars, evalVars, toolVars>>

\* what the scoring functions leave alone, and what segments_to_frames does
notAlign == <<frameVars, ltsVars, evalVars, toolVars>>

notFrame == <<alignVars, ltsVars, evalVars, toolVars>>

notLts == <<alignVars, frameVars, evalVars, toolVars>>

notTool == <<alignVars, frameVars, ltsVars, evalVars>>

\* speaker ids: "S0" occurs on both sides, the others on one side only
AllIds == {"S0", "S1", "S2", "GA"}

\* the cells of the confusion matrices of the model
NoConfusion == ZeroMatrix(AllIds, AllIds \cup {Miss})

NoResult == [returned |-> FALSE]

EvalIdle ==
    /\ confusion = NoConfusion
    /\ pred_segments = <<>>
    /\ gt_segments = <<>>
    /\ result = NoResult

NoOutput == [written |-> FALSE]

ToolIdle ==
    /\ tool_segments = <<>>
    /\ speakers_seen = {}
    /\ total_duration = 0
    /\ output = NoOutput

PredIds == {"S0", "S1", "S2"}

GtIds == {"S0", "GA"}

NoCand == [mapping |-> EmptyMapping, acc |-> <<0, 1>>]

NoDer == [missed_speech |-> 0, false_alarm |-> 0, speaker_confusion |-> 0,
          total_speech_frames |-> 0, der |-> 0]

AlignIdle ==
    /\ pred_speakers = <<>>
    /\ gt_speakers = <<>>
    /\ pred_frames = <<>>
    /\ gt_frames = <<>>
    /\ perm_k = 0
    /\ best_mapping = EmptyMapping
    /\ best_accuracy = <<0, 1>>
    /\ cand = NoCand
    /\ mapping = EmptyMapping
    /\ accuracy = <<0, 1>>
    /\ der_components = NoDer

\* evaluate's call of find_best_mapping: any two id lists, and two grids that
\* segments_to_frames built for the same duration, hence of one length
AlignInit ==
    /\ pc = "fbm_call"
    /\ pred_speakers \in DistinctSeqs(PredIds)
    /\ gt_speakers \in DistinctSeqs(GtIds)
    /\ \E n \in 0..MaxAlignFrames :
          /\ pred_frames \in [1..n -> PredIds \cup {None}]
          /\ gt_frames \in [1..n -> GtIds \cup {None}]
    /\ perm_k = 0
    /\ best_mapping = EmptyMapping
    /\ best_accuracy = <<0, 1>>
    /\ cand = NoCand
    /\ mapping = EmptyMapping
    /\ accuracy = <<0, 1>>
    /\ der_components = NoDer

\* FBM_EmptyIds with the two special cases tested in the other order: silent
\* ground truth wins over an empty id list
FBM_EmptyIds_SilenceFirst ==
    /\ pc = "fbm_call"
    /\ Len(pred_speakers) = 0 \/ Len(gt_speakers) = 0
    /\ mapping' = EmptyMapping
    /\ accuracy' = IF HasVoiced(gt_frames) THEN <<0, 1>> ELSE <<1, 1>>
    /\ pc' = "fbm_returned"
    /\ UNCHANGED <<pred_speakers, gt_speakers, pred_frames, gt_frames, perm_k,
                   best_mapping, best_accuracy, cand, der_components>>
    /\ UNCHANGED notAlign

\* lines 58-59
FBM_EmptyIds ==
    /\ pc = "fbm_call"
    /\ Len(pred_speakers) = 0 \/ Len(gt_speakers) = 0
    /\ mapping' = EmptyMapping
    /\ accuracy' = <<0, 1>>
    /\ pc' = "fbm_returned"
    /\ UNCHANGED <<pred_speakers, gt_speakers, pred_frames, gt_frames, perm_k,
                   best_mapping, best_accuracy, cand, der_components>>
    /\ UNCHANGED notAlign

\* FBM_NoSpeech returning 0.0 like the other special case
FBM_NoSpeech_Zero ==
    /\ pc = "fbm_call"
    /\ ~(Len(pred_speakers) = 0 \/ Len(gt_speakers) = 0)
    /\ ~HasVoiced(gt_frames)
    /\ mapping' = EmptyMapping
    /\ accuracy' = <<0, 1>>
    /\ pc' = "fbm_returned"
    /\ UNCHANGED <<pred_speakers, gt_speakers, pred_frames, gt_frames, perm_k,
                   best_mapping, best_accuracy, cand, der_components>>
    /\ UNCHANGED notAlign

\* lines 62-64
FBM_NoSpeech ==
    /\ pc = "fbm_call"
    /\ ~(Len(pred_speakers) = 0 \/ Len(gt_speakers) = 0)
    /\ ~HasVoiced(gt_frames)
    /\ mapping' = EmptyMapping
    /\ accuracy' = <<1, 1>>
    /\ pc' = "fbm_returned"
    /\ UNCHANGED <<pred_speakers, gt_speakers, pred_frames, gt_frames, perm_k,
                   best_mapping, best_accuracy, cand, der_components>>
    /\ UNCHANGED notAlign

\* lines 66-77
FBM_Start ==
    /\ pc = "fbm_call"
    /\ ~(Len(pred_speakers) = 0 \/ Len(gt_speakers) = 0)
    /\ HasVoiced(gt_frames)
    /\ best_mapping' = EmptyMapping
    /\ best_accuracy' = <<0, 1>>
    /\ perm_k' = 1
    /\ pc' = IF Len(pred_speakers) <= Len(gt_speakers)
             THEN "fbm_perm_gt" ELSE "fbm_perm_pred"
    /\ UNCHANGED <<pred_speakers, gt_speakers, pred_frames, gt_frames, cand,
                   mapping, accuracy, der_components>>
    /\ UNCHANGED notAlign

\* FBM_Try comparing with >=: the last candidate of a tie is kept
FBM_Try_LastWins(m) ==
    LET acc == compute_accuracy(pred_frames, gt_frames, m)
    IN  /\ cand' = [mapping |-> m, acc |-> acc]
        /\ IF ~FracGT(best_accuracy, acc)
           THEN best_accuracy' = acc /\ best_mapping' = m
           ELSE UNCHANGED <<best_accuracy, best_mapping>>
        /\ perm_k' = perm_k + 1
        /\ UNCHANGED <<pc, pred_speakers, gt_speakers, pred_frames, gt_frames,
                       mapping, accuracy, der_components>>

\* what one loop iteration does with its candidate m: lines 81-84 and 93-96
FBM_Try(m) ==
    LET acc == compute_accuracy(pred_frames, gt_frames, m)
    IN  /\ cand' = [mapping |-> m, acc |-> acc]
        /\ IF FracGT(acc, best_accuracy)
           THEN best_accuracy' = acc /\ best_mapping' = m
           ELSE UNCHANGED <<best_accuracy, best_mapping>>
        /\ perm_k' = perm_k + 1
        /\ UNCHANGED <<pc, pred_speakers, gt_speakers, pred_frames, gt_frames,
                       mapping, accuracy, der_components>>

\* lines 79-84
FBM_PermGt ==
    /\ pc = "fbm_perm_gt"
    /\ perm_k <= Len(permutations(gt_speakers, Len(pred_speakers)))
    /\ FBM_Try(MappingPermGt(pred_speakers,
                   permutations(gt_speakers, Len(pred_speakers))[perm_k]))
    /\ UNCHANGED notAlign

\* lines 87-96
FBM_PermPred ==
    /\ pc = "fbm_perm_pred"
    /\ perm_k <= Len(permutations(pred_speakers, Len(gt_speakers)))
    /\ FBM_Try(MappingPermPred(pred_speakers, gt_speakers,
                   permutations(pred_speakers, Len(gt_speakers))[perm_k]))
    /\ UNCHANGED notAlign

\* line 98, the loop being exhausted
FBM_Return ==
    /\ \/ /\ pc = "fbm_perm_gt"
          /\ perm_k > Len(permutations(gt_speakers, Len(pred_speakers)))
       \/ /\ pc = "fbm_perm_pred"
          /\ perm_k > Len(permutations(pred_speakers, Len(gt_speakers)))
    /\ mapping' = best_mapping
    /\ accuracy' = best_accuracy
    /\ pc' = "fbm_returned"
    /\ UNCHANGED <<pred_speakers, gt_speakers, pred_frames, gt_frames, perm_k,
                   best_mapping, best_accuracy, cand, der_components>>
    /\ UNCHANGED notAlign

\* evaluate, line 225: the DER components of the returned mapping
Evaluate_Der ==
    /\ pc = "fbm_returned"
    /\ der_components' = compute_der_components(pred_frames, gt_frames, mapping)
    /\ pc' = "scored"
    /\ UNCHANGED <<pred_speakers, gt_speakers, pred_frames, gt_frames, perm_k,
                   best_mapping, best_accuracy, cand, mapping, accuracy>>
    /\ UNCHANGED notAlign

AlignNext ==
    \/ FBM_EmptyIds
    \/ FBM_NoSpeech
    \/ FBM_Start
    \/ FBM_PermGt
    \/ FBM_PermPred
    \/ FBM_Return
    \/ Evaluate_Der

\* ------------------------------------------------------------ the scorer
\* compute_accuracy and compute_der_components called on any two grids and
\* any mapping from predicted ids to ground-truth ids
ScorePredIds == {"S0", "S1"}

PartialMaps(K, V) == UNION {[D -> V] : D \in SUBSET K}

ScoreInit ==
    /\ pc = "score_call"
    /\ pred_frames \in SeqsUpTo(ScorePredIds \cup {None}, MaxFrames)
    /\ gt_frames \in SeqsUpTo(GtIds \cup {None}, MaxFrames)
    /\ mapping \in PartialMaps(ScorePredIds, GtIds)
    /\ pred_speakers = <<>>
    /\ gt_speakers = <<>>
    /\ perm_k = 0
    /\ best_mapping = EmptyMapping
    /\ best_accuracy = <<0, 1>>
    /\ cand = NoCand
    /\ accuracy = <<0, 1>>
    /\ der_components = NoDer

\* compute_accuracy(pred_frames, gt_frames, mapping)
Score_Accuracy ==
    /\ pc = "score_call"
    /\ accuracy' = compute_accuracy(pred_frames, gt_frames, mapping)
    /\ pc' = "score_acc"
    /\ UNCHANGED <<pred_speakers, gt_speakers, pred_frames, gt_frames, perm_k,
                   best_mapping, best_accuracy, cand, mapping, der_components>>
    /\ UNCHANGED notAlign

\* compute_der_components(pred_frames, gt_frames, mapping)
Score_Der ==
    /\ pc = "score_acc"
    /\ der_components' = compute_der_components(pred_frames, gt_frames, mapping)
    /\ pc' = "scored"
    /\ UNCHANGED <<pred_speakers, gt_speakers, pred_frames, gt_frames, perm_k,
                   best_mapping, best_accuracy, cand, mapping, accuracy>>
    /\ UNCHANGED notAlign

\* compute_confusion_matrix(pred_frames, gt_frames, mapping, gt_speakers)
Score_Confusion ==
    /\ pc = "scored"
    /\ confusion' = compute_confusion_matrix(pred_frames, gt_frames, mapping,
                                              AllIds, AllIds \cup {Miss})
    /\ pc' = "score_done"
    /\ UNCHANGED <<alignVars, frameVars, ltsVars, toolVars>>
    /\ UNCHANGED <<pred_segments, gt_segments, result>>

ScoreNext == Score_Accuracy \/ Score_Der \/ Score_Confusion

\* ------------------------------------------------------ segments_to_frames
FrameIdle ==
    /\ segments = <<>>
    /\ duration = 0
    /\ frames = <<>>
    /\ seg_i = 0

\* the speaker ids, start and end times (ms) of the segments passed in:
\* starts before 0, ends past the duration and ends before the start are in
FrameSpeakers == {"S0", "S1"}

StartTimes == {-100, 0, 50, 100, 300}

EndTimes == {50, 100, 250, 400}

Durations == {0, 200, 300, 400}

SegmentInputs == [speaker : FrameSpeakers, start : StartTimes, end : EndTimes]

FrameInit ==
    /\ pc = "stf_call"
    /\ segments \in SeqsUpTo(SegmentInputs, MaxSegments)
    /\ duration \in Durations
    /\ frames = <<>>
    /\ seg_i = 0

NumFrames == CeilQuotient(duration)

\* lines 37-38
STF_Call ==
    /\ pc = "stf_call"
    /\ frames' = [k \in 1..NumFrames |-> None]
    /\ seg_i' = 1
    /\ pc' = "stf_loop"
    /\ UNCHANGED <<segments, duration>>
    /\ UNCHANGED notFrame

\* STF_Segment taking each segment off the caller's list as it is written
STF_Segment_ConsumesSegments ==
    /\ pc = "stf_loop"
    /\ seg_i <= Len(segments)
    /\ ~SegmentRaises(frames, segments[seg_i], NumFrames)
    /\ frames' = WriteSegment(frames, segments[seg_i], NumFrames)
    /\ segments' = RemoveAt(segments, seg_i)
    /\ UNCHANGED <<pc, seg_i, duration>>
    /\ UNCHANGED notFrame

\* lines 40-45, one segment
STF_Segment ==
    /\ pc = "stf_loop"
    /\ seg_i <= Len(segments)
    /\ ~SegmentRaises(frames, segments[seg_i], NumFrames)
    /\ frames' = WriteSegment(frames, segments[seg_i], NumFrames)
    /\ seg_i' = seg_i + 1
    /\ UNCHANGED <<pc, segments, duration>>
    /\ UNCHANGED notFrame

\* line 45 raising IndexError
STF_IndexError ==
    /\ pc = "stf_loop"
    /\ seg_i <= Len(segments)
    /\ SegmentRaises(frames, segments[seg_i], NumFrames)
    /\ pc' = "stf_error"
    /\ UNCHANGED <<segments, duration, frames, seg_i>>
    /\ UNCHANGED notFrame

\* line 47
STF_Return ==
    /\ pc = "stf_loop"
    /\ seg_i > Len(segments)
    /\ pc' = "stf_returned"
    /\ UNCHANGED <<segments, duration, frames, seg_i>>
    /\ UNCHANGED notFrame

FrameNext == STF_Call \/ STF_Segment \/ STF_IndexError \/ STF_Return

\* ------------------------------------------------------ labels_to_segments
LtsIdle ==
    /\ labels = <<>>
    /\ times = <<>>
    /\ speech_mask = <<>>
    /\ hop_length = 0
    /\ frame_i = 0
    /\ current_speaker = None
    /\ segment_start = NoTime
    /\ lts_segments = <<>>
    /\ merged = <<>>
    /\ merge_j = 0

ClusterIds == {0, 1}

\* frame centres t0 + k * hop: extract_features' grid with the hop of 0.25 s
\* that run_diarization passes, and two grids with a hop of 0.3 s
FrameGrids ==
    {[hop |-> 250, t0 |-> 250], [hop |-> 300, t0 |-> 150],
     [hop |-> 300, t0 |-> 250]}

\* a call on three arrays of any lengths up to MaxLen
LtsInit ==
    /\ pc = "lts_loop"
    /\ labels \in SeqsUpTo(ClusterIds, MaxLen)
    /\ speech_mask \in SeqsUpTo(BOOLEAN, MaxLen)
    /\ \E g \in FrameGrids, n \in 0..MaxLen :
          /\ hop_length = g.hop
          /\ times = [k \in 1..n |-> g.t0 + (k - 1) * g.hop]
    /\ frame_i = 1
    /\ current_speaker = None
    /\ segment_start = NoTime
    /\ lts_segments = <<>>
    /\ merged = <<>>
    /\ merge_j = 0

\* the number of frames zip(labels, speech_mask, times) yields
ZipLen == Min2(Len(labels), Min2(Len(speech_mask), Len(times)))

\* ClosedHere ending at the centre of the last frame of the run
ClosedHere_AtLastCentre ==
    [speaker |-> current_speaker,
     start |-> segment_start[1],
     end |-> times[frame_i] - hop_length]

\* the segment of lines 140-144 and 152-156, closed at frame frame_i
ClosedHere ==
    [speaker |-> current_speaker,
     start |-> segment_start[1],
     end |-> times[frame_i] - HalfHop(hop_length)]

\* lines 134-148: a speech frame whose label is not current_speaker
LTS_SpeechNew ==
    /\ pc = "lts_loop"
    /\ frame_i <= ZipLen
    /\ speech_mask[frame_i]
    /\ SpeakerLabel(labels[frame_i]) # current_speaker
    /\ lts_segments' = IF current_speaker # None
                       THEN Append(lts_segments, ClosedHere)
                       ELSE lts_segments
    /\ current_speaker' = SpeakerLabel(labels[frame_i])
    /\ segment_start' = TimeOf(times[frame_i] - HalfHop(hop_length))
    /\ frame_i' = frame_i + 1
    /\ UNCHANGED <<pc, labels, times, speech_mask, hop_length, merged, merge_j>>
    /\ UNCHANGED notLts

\* lines 134-137: a speech frame whose label is current_speaker
LTS_SpeechSame ==
    /\ pc = "lts_loop"
    /\ frame_i <= ZipLen
    /\ speech_mask[frame_i]
    /\ SpeakerLabel(labels[frame_i]) = current_speaker
    /\ frame_i' = frame_i + 1
    /\ UNCHANGED <<pc, labels, times, speech_mask, hop_length, current_speaker,
                   segment_start, lts_segments, merged, merge_j>>
    /\ UNCHANGED notLts

\* LTS_Silence without the reset of lines 157-158
LTS_Silence_NoReset ==
    /\ pc = "lts_loop"
    /\ frame_i <= ZipLen
    /\ ~speech_mask[frame_i]
    /\ IF current_speaker # None
       THEN lts_segments' = Append(lts_segments, ClosedHere)
       ELSE UNCHANGED lts_segments
    /\ frame_i' = frame_i + 1
    /\ UNCHANGED <<pc, labels, times, speech_mask, hop_length, merged, merge_j,
                   current_speaker, segment_start>>
    /\ UNCHANGED notLts

\* LTS_Silence leaving the segment open at a frame that is not speech but
\* carries the cluster id of the current speaker
LTS_Silence_KeepsOwnLabel ==
    /\ pc = "lts_loop"
    /\ frame_i <= ZipLen
    /\ ~speech_mask[frame_i]
    /\ IF current_speaker # None /\
          SpeakerLabel(labels[frame_i]) # current_speaker
       THEN /\ lts_segments' = Append(lts_segments, ClosedHere)
            /\ current_speaker' = None
            /\ segment_start' = NoTime
       ELSE UNCHANGED <<lts_segments, current_speaker, segment_start>>
    /\ frame_i' = frame_i + 1
    /\ UNCHANGED <<pc, labels, times, speech_mask, hop_length, merged, merge_j>>
    /\ UNCHANGED notLts

\* lines 149-158: a frame that is not speech
LTS_Silence ==
    /\ pc = "lts_loop"
    /\ frame_i <= ZipLen
    /\ ~speech_mask[frame_i]
    /\ IF current_speaker # None
       THEN /\ lts_segments' = Append(lts_segments, ClosedHere)
            /\ current_speaker' = None
            /\ segment_start' = NoTime
       ELSE UNCHANGED <<lts_segments, current_speaker, segment_start>>
    /\ frame_i' = frame_i + 1
    /\ UNCHANGED <<pc, labels, times, speech_mask, hop_length, merged, merge_j>>
    /\ UNCHANGED notLts

\* lines 160-169: the loop is over; the open segment is closed at
\* times[-1] + hop_length / 2
LTS_CloseFinal ==
    /\ pc = "lts_loop"
    /\ frame_i > ZipLen
    /\ lts_segments' =
          IF current_speaker # None
          THEN Append(lts_segments,
                      [speaker |-> current_speaker,
                       start |-> segment_start[1],
                       end |-> times[Len(times)] + HalfHop(hop_length)])
          ELSE lts_segments
    /\ merged' = <<>>
    /\ merge_j' = 1
    /\ pc' = "lts_merge"
    /\ UNCHANGED <<labels, times, speech_mask, hop_length, frame_i,
                   current_speaker, segment_start>>
    /\ UNCHANGED notLts

\* lines 170-176, one segment.  (merged[-1] is the dict object of an entry of
\* segments the loop has passed; from here on it is read through merged only.)
LTS_MergeStep ==
    /\ pc = "lts_merge"
    /\ merge_j <= Len(lts_segments)
    /\ merged' = MergeInto(merged, lts_segments[merge_j])
    /\ merge_j' = merge_j + 1
    /\ UNCHANGED <<pc, labels, times, speech_mask, hop_length, frame_i,
                   current_speaker, segment_start, lts_segments>>
    /\ UNCHANGED notLts

\* line 178
LTS_Return ==
    /\ pc = "lts_merge"
    /\ merge_j > Len(lts_segments)
    /\ pc' = "lts_returned"
    /\ UNCHANGED ltsVars
    /\ UNCHANGED notLts

LtsNext ==
    \/ LTS_SpeechNew
    \/ LTS_SpeechSame
    \/ LTS_Silence
    \/ LTS_CloseFinal
    \/ LTS_MergeStep
    \/ LTS_Return

\* ----------------------------------------------------------------- evaluate
\* the two loaded files: their "speakers" lists, which need not name the
\* speakers of their "segments", and the larger of their "duration_seconds"
EvalPredIds == {"S0", "S1"}

EvalStarts == {-100, 0, 100}

EvalDurations == {0, 200}

EvalSegments(ids) == [speaker : ids, start : EvalStarts, end : {200}]

EvalInit ==
    /\ pc = "eval_call"
    /\ pred_speakers \in DistinctSeqs(EvalPredIds)
    /\ gt_speakers \in DistinctSeqs(GtIds)
    /\ pred_segments \in SeqsUpTo(EvalSegments(EvalPredIds), MaxEvalSegments)
    /\ gt_segments \in SeqsUpTo(EvalSegments(GtIds), MaxEvalSegments)
    /\ duration \in EvalDurations
    /\ pred_frames = <<>>
    /\ gt_frames = <<>>
    /\ perm_k = 0
    /\ best_mapping = EmptyMapping
    /\ best_accuracy = <<0, 1>>
    /\ cand = NoCand
    /\ mapping = EmptyMapping
    /\ accuracy = <<0, 1>>
    /\ der_components = NoDer
    /\ confusion = NoConfusion
    /\ result = NoResult
    /\ segments = <<>>
    /\ frames = <<>>
    /\ seg_i = 0

\* lines 203-207, both grids built
Eval_Frames ==
    /\ pc = "eval_call"
    /\ ~segments_to_frames(pred_segments, duration).raised
    /\ ~segments_to_frames(gt_segments, duration).raised
    /\ pred_frames' = segments_to_frames(pred_segments, duration).frames
    /\ gt_frames' = segments_to_frames(gt_segments, duration).frames
    /\ pc' = "eval_framed"
    /\ UNCHANGED <<pred_speakers, gt_speakers, perm_k, best_mapping,
                   best_accuracy, cand, mapping, accuracy, der_components>>
    /\ UNCHANGED <<frameVars, ltsVars, evalVars, toolVars>>

\* lines 203-204, segments_to_frames raising IndexError
Eval_FramesError ==
    /\ pc = "eval_call"
    /\ \/ segments_to_frames(pred_segments, duration).raised
       \/ segments_to_frames(gt_segments, duration).raised
    /\ pc' = "eval_error"
    /\ UNCHANGED <<alignVars, frameVars, ltsVars, evalVars, toolVars>>

\* Eval_Align with the ids that occur in the segments in place of the
\* "speakers" lists
Eval_Align_SpeakersOfSegments ==
    /\ pc = "eval_framed"
    /\ LET r == find_best_mapping(
                    [k \in 1..Len(pred_segments) |-> pred_segments[k].speaker],
                    [k \in 1..Len(gt_segments) |-> gt_segments[k].speaker],
                    pred_frames, gt_frames)
       IN  mapping' = r[1] /\ accuracy' = r[2]
    /\ pc' = "eval_aligned"
    /\ UNCHANGED <<pred_speakers, gt_speakers, pred_frames, gt_frames, perm_k,
                   best_mapping, best_accuracy, cand, der_components>>
    /\ UNCHANGED <<frameVars, ltsVars, evalVars, toolVars>>

\* lines 216-217
Eval_Align ==
    /\ pc = "eval_framed"
    /\ LET r == find_best_mapping(pred_speakers, gt_speakers, pred_frames,
                                   gt_frames)
       IN  mapping' = r[1] /\ accuracy' = r[2]
    /\ pc' = "eval_aligned"
    /\ UNCHANGED <<pred_speakers, gt_speakers, pred_frames, gt_frames, perm_k,
                   best_mapping, best_accuracy, cand, der_components>>
    /\ UNCHANGED <<frameVars, ltsVars, evalVars, toolVars>>

\* lines 224-225
Eval_Score ==
    /\ pc = "eval_aligned"
    /\ confusion' = compute_confusion_matrix(pred_frames, gt_frames, mapping,
                                              AllIds, AllIds \cup {Miss})
    /\ der_components' = compute_der_components(pred_frames, gt_frames, mapping)
    /\ pc' = "eval_scored"
    /\ UNCHANGED <<pred_speakers, gt_speakers, pred_frames, gt_frames, perm_k,
                   best_mapping, best_accuracy, cand, mapping, accuracy>>
    /\ UNCHANGED <<frameVars, ltsVars, toolVars>>
    /\ UNCHANGED <<pred_segments, gt_segments, result>>

\* lines 253-266; accuracy and der are in hundredths of a percent
Eval_Return ==
    /\ pc = "eval_scored"
    /\ result' = [returned |-> TRUE,
                  accuracy |-> RoundPercent2(accuracy[1], accuracy[2]),
                  der |-> der_components.der,
                  speaker_count_match |-> Len(pred_speakers) = Len(gt_speakers),
                  predicted_speakers |-> Len(pred_speakers),
                  ground_truth_speakers |-> Len(gt_speakers),
                  mapping |-> mapping,
                  der_components |-> der_components]
    /\ pc' = "eval_returned"
    /\ UNCHANGED <<alignVars, frameVars, ltsVars, toolVars>>
    /\ UNCHANGED <<confusion, pred_segments, gt_segments>>

EvalNext ==
    \/ Eval_Frames
    \/ Eval_FramesError
    \/ Eval_Align
    \/ Eval_Score
    \/ Eval_Return

\* ------------------------------------------- create_labels_interactive.py
\* the first words typed on an entry line, and what parts[0].upper() makes
\* of them
SpeakerInputs == {"A", "b", "speaker_a", "X1"}

Upper ==
    [A |-> "A", b |-> "B", speaker_a |-> "SPEAKER_A", X1 |-> "X1"]

\* f"SPEAKER_{speaker_input}"
Prefixed == [A |-> "SPEAKER_A", B |-> "SPEAKER_B", X1 |-> "SPEAKER_X1"]

\* speaker_input.startswith('SPEAKER_')
StartsWithSpeaker(u) == u \in {"SPEAKER_A"}

\* lines 105-114
NormalizeSpeaker(word) ==
    LET speaker_input == Upper[word]
    IN  IF speaker_input \in {"A", "B", "C", "D"} THEN Prefixed[speaker_input]
        ELSE IF StartsWithSpeaker(speaker_input) THEN speaker_input
        ELSE Prefixed[speaker_input]

\* start times typed, in seconds, and the durations ffprobe or the user gives
ToolStarts == {0, 5}

ToolDurations == {10, 20}

\* segments.sort(key=start): a stable sort, here by insertion from the left
InsertByStart(sorted, seg) ==
    LET before == {k \in 1..Len(sorted) : sorted[k].start <= seg.start}
        n == Cardinality(before)
    IN  SubSeq(sorted, 1, n) \o <<seg>> \o SubSeq(sorted, n + 1, Len(sorted))

RECURSIVE SortByStartFrom(_, _, _)
SortByStartFrom(sorted, segs, k) ==
    IF k > Len(segs) THEN sorted
    ELSE SortByStartFrom(InsertByStart(sorted, segs[k]), segs, k + 1)

SortByStart(segs) == SortByStartFrom(<<>>, segs, 1)

\* lines 149-153: each segment ends where the next one starts, the last one
\* at total_duration
WithEnds(segs, dur) ==
    [k \in 1..Len(segs) |->
        [speaker |-> segs[k].speaker,
         start |-> segs[k].start,
         end |-> IF k < Len(segs) THEN segs[k + 1].start ELSE dur]]

\* the order of sorted() on the speaker names of the model
NameRank == [SPEAKER_A |-> 1, SPEAKER_B |-> 2, SPEAKER_X1 |-> 3]

\* sorted(list(speakers_seen))
SortedNames(S) ==
    CHOOSE q \in [1..Cardinality(S) -> S] :
        /\ {q[k] : k \in 1..Cardinality(S)} = S
        /\ \A j, k \in 1..Cardinality(S) :
              j < k => NameRank[q[j]] < NameRank[q[k]]

\* lines 69-70
ToolInit ==
    /\ pc = "tool_loop"
    /\ tool_segments = <<>>
    /\ speakers_seen = {}
    /\ total_duration = 0
    /\ output = NoOutput

\* lines 99-124: an entry "<speaker> <start_time>" that parses
Tool_Add(word, start) ==
    /\ pc = "tool_loop"
    /\ Len(tool_segments) < MaxEntries
    /\ tool_segments' =
          Append(tool_segments,
                 [speaker |-> NormalizeSpeaker(word), start |-> start])
    /\ speakers_seen' = speakers_seen \cup {NormalizeSpeaker(word)}
    /\ UNCHANGED <<pc, total_duration, output>>
    /\ UNCHANGED notTool

\* lines 80-86: "undo"
Tool_Undo ==
    /\ pc = "tool_loop"
    /\ IF tool_segments # <<>>
       THEN tool_segments' = SubSeq(tool_segments, 1, Len(tool_segments) - 1)
       ELSE UNCHANGED tool_segments
    /\ UNCHANGED <<pc, speakers_seen, total_duration, output>>
    /\ UNCHANGED notTool

\* lines 87-95: "list" prints the entries
Tool_List ==
    /\ pc = "tool_loop"
    /\ UNCHANGED <<pc, tool_segments, speakers_seen, total_duration, output>>
    /\ UNCHANGED notTool

\* lines 96-97, 101-103 and 116-120: an empty line, a line of one word, or a
\* time that does not parse
Tool_Rejected ==
    /\ pc = "tool_loop"
    /\ UNCHANGED <<pc, tool_segments, speakers_seen, total_duration, output>>
    /\ UNCHANGED notTool

\* lines 78-79 (or end of input) and 126-128: done with no entry left
Tool_Exit ==
    /\ pc = "tool_loop"
    /\ tool_segments = <<>>
    /\ pc' = "tool_exit"
    /\ UNCHANGED <<tool_segments, speakers_seen, total_duration, output>>
    /\ UNCHANGED notTool

\* lines 78-79 (or end of input) and 130-165: done; the file is written
Tool_Write(dur) ==
    /\ pc = "tool_loop"
    /\ tool_segments # <<>>
    /\ tool_segments' = WithEnds(SortByStart(tool_segments), dur)
    /\ total_duration' = dur
    /\ output' = [written |-> TRUE,
                  duration_seconds |-> dur,
                  speakers |-> SortedNames(speakers_seen),
                  segments |-> tool_segments']
    /\ pc' = "tool_written"
    /\ UNCHANGED speakers_seen
    /\ UNCHANGED notTool

ToolNext ==
    \/ \E word \in SpeakerInputs, start \in ToolStarts : Tool_Add(word, start)
    \/ Tool_Undo
    \/ Tool_List
    \/ Tool_Rejected
    \/ Tool_Exit
    \/ \E dur \in ToolDurations : Tool_Write(dur)

\* --------------------------------------------------------- specifications
InitTool == ToolInit /\ AlignIdle /\ FrameIdle /\ LtsIdle /\ EvalIdle

SpecTool == InitTool /\ [][ToolNext]_vars

InitEval == EvalInit /\ LtsIdle /\ ToolIdle

SpecEval == InitEval /\ [][EvalNext]_vars


InitAlign == AlignInit /\ FrameIdle /\ LtsIdle /\ EvalIdle /\ ToolIdle

SpecAlign == InitAlign /\ [][AlignNext]_vars

InitScore == ScoreInit /\ FrameIdle /\ LtsIdle /\ EvalIdle /\ ToolIdle

SpecScore == InitScore /\ [][ScoreNext]_vars

InitFrame == FrameInit /\ AlignIdle /\ LtsIdle /\ EvalIdle /\ ToolIdle

SpecFrame == InitFrame /\ [][FrameNext]_vars

InitLts == LtsInit /\ AlignIdle /\ FrameIdle /\ EvalIdle /\ ToolIdle

SpecLts == InitLts /\ [][LtsNext]_vars

\* a call of any one of the functions
InitCalls == InitFrame \/ InitAlign \/ InitScore \/ InitLts

CallsNext == FrameNext \/ AlignNext \/ ScoreNext \/ LtsNext

SpecCalls == InitCalls /\ [][CallsNext]_vars

\* ------------------------------------------------------------------ claims
FbmReturned == pc \in {"fbm_returned", "scored"}

\* the accuracies of all candidate mappings of the search
CandidateAccs ==
    LET cs == Candidates(pred_speakers, gt_speakers)
    IN  [k \in 1..Len(cs) |-> compute_accuracy(pred_frames, gt_frames, cs[k])]

\* the returned accuracy is the maximum over the candidates
ReturnsMaxAccuracy ==
    /\ \A k \in DOMAIN CandidateAccs : ~FracGT(CandidateAccs[k], accuracy)
    /\ \E k \in DOMAIN CandidateAccs : FracEq(CandidateAccs[k], accuracy)

\* with two ids on each side and exactly one candidate scoring 1.0, that
\* candidate is returned with accuracy 1.0
TwoByTwoPicksCorrect ==
    LET cs == Candidates(pred_speakers, gt_speakers)
        perfect == {k \in DOMAIN cs : FracEq(CandidateAccs[k], <<1, 1>>)}
    IN  (Len(pred_speakers) = 2 /\ Len(gt_speakers) = 2 /\ Cardinality(perfect) = 1)
            => /\ \E k \in perfect : mapping = cs[k]
               /\ FracEq(accuracy, <<1, 1>>)

\* C1: for non-empty id lists and a ground truth with a non-silence frame,
\* find_best_mapping returns the maximum of compute_accuracy over the
\* candidate mappings together with a mapping that attains it
\* (compute_accuracy of the returned mapping equals the returned accuracy);
\* in a 2-by-2 case with exactly one correct bijection, that bijection is
\* returned with accuracy 1.0.
C1_BestMappingAttainsMax ==
    (FbmReturned /\ Len(pred_speakers) > 0 /\ Len(gt_speakers) > 0
        /\ HasVoiced(gt_frames))
    => /\ ReturnsMaxAccuracy
       /\ FracEq(compute_accuracy(pred_frames, gt_frames, mapping), accuracy)
       /\ TwoByTwoPicksCorrect

\* C3: the counts returned by compute_der_components satisfy
\* 100 * (missed + false_alarm + confusion) = der * total_speech_frames up to
\* the rounding of der to two decimals (half a hundredth of a percent) when
\* total_speech_frames > 0, and der = 0 when total_speech_frames = 0, also
\* with false alarms.
C3_DerIdentity ==
    pc = "scored" =>
        LET d == der_components
            errors == d.missed_speech + d.false_alarm + d.speaker_confusion
            diff == d.der * d.total_speech_frames - 10000 * errors
        IN  IF d.total_speech_frames > 0
            THEN 2 * diff <= d.total_speech_frames
                 /\ 2 * diff >= -d.total_speech_frames
            ELSE d.der = 0

\* a der that had to be rounded: 1 error frame over 3 speech frames
C3_Witness ==
    /\ pc = "scored"
    /\ der_components.total_speech_frames = 3
    /\ der_components.missed_speech + der_components.speaker_confusion = 1
    /\ der_components.der = 3333

\* the ground-truth frames that are not silence
GtSpeech == {i \in 1..Len(gt_frames) : gt_frames[i] # None}

\* those of them whose prediction is non-silence and maps to the
\* ground-truth label
GtCorrect ==
    {i \in GtSpeech :
        /\ i <= Len(pred_frames)
        /\ pred_frames[i] # None
        /\ MapGet(mapping, pred_frames[i], pred_frames[i]) = gt_frames[i]}

C5_EmptyIdsZero ==
    (FbmReturned /\ (Len(pred_speakers) = 0 \/ Len(gt_speakers) = 0))
    => mapping = EmptyMapping /\ accuracy[1] = 0

\* a return on an empty predicted id list with a silent ground truth and a
\* speaking prediction
C5_Witness ==
    /\ pc = "fbm_returned"
    /\ Len(pred_speakers) = 0 /\ Len(gt_speakers) = 2
    /\ Len(gt_frames) = 2 /\ ~HasVoiced(gt_frames)
    /\ HasVoiced(pred_frames)

\* C6 as stated: a ground truth without non-silence frames gives the empty
\* mapping and accuracy 1.0 for any id lists.
C6_VacuousAnyIds ==
    (FbmReturned /\ ~HasVoiced(gt_frames))
    => mapping = EmptyMapping /\ FracEq(accuracy, <<1, 1>>)

\* C6 amended: a ground truth without non-silence frames gives the empty
\* mapping and accuracy 1.0 when both id lists are non-empty.
C6_VacuousNonEmptyIds ==
    (FbmReturned /\ ~HasVoiced(gt_frames)
        /\ Len(pred_speakers) > 0 /\ Len(gt_speakers) > 0)
    => mapping = EmptyMapping /\ FracEq(accuracy, <<1, 1>>)

\* a vacuous return with ids on both sides and a speaking prediction
C6_Witness ==
    /\ pc = "fbm_returned"
    /\ Len(pred_speakers) = 3 /\ Len(gt_speakers) = 1
    /\ Len(gt_frames) = 2 /\ ~HasVoiced(gt_frames)
    /\ HasVoiced(pred_frames)
    /\ accuracy = <<1, 1>>

\* floor(t / frame_size) and ceil(t / frame_size) of the exact quotient
FloorExact(t) == t \div FrameSizeMs

CeilExact(t) == -((-t) \div FrameSizeMs)

\* the 0-based slots of the returned grid in the discretized range
\* [floor(start / frame_size), ceil(end / frame_size)) of segment k
SlotsOf(k) ==
    {i \in 0..(Len(frames) - 1) :
        FloorExact(segments[k].start) <= i /\ i < CeilExact(segments[k].end)}

\* the segments whose discretized range holds slot i
Covering(i) == {k \in 1..Len(segments) : i \in SlotsOf(k)}

LastOf(K) == CHOOSE k \in K : \A j \in K : j <= k

\* C2: in the grid segments_to_frames returns, a slot in the discretized
\* range of one or more segments holds the speaker of the last such segment
\* of the input list, a slot in the range of none is None, and overlapping
\* segments raise no error.
C2_LastWriteWins ==
    /\ pc = "stf_returned" =>
        \A i \in 0..(Len(frames) - 1) :
            frames[i + 1] = IF Covering(i) = {} THEN None
                            ELSE segments[LastOf(Covering(i))].speaker
    /\ pc = "stf_error" =>
        ~\E j, k \in 1..Len(segments) : j # k /\ SlotsOf(j) \cap SlotsOf(k) # {}

\* C7: the merge pass merges a segment into the last emitted one if and only
\* if both have the same speaker and segment.start - last.end is strictly
\* below 0.3 s (a gap of exactly 0.3 s is not merged); a merge sets the last
\* emitted segment's end to the segment's end and drops the segment,
\* otherwise the segment is emitted unchanged.
C7_MergeIffGapBelow ==
    [][(pc = "lts_merge" /\ merge_j <= Len(lts_segments)) =>
        LET seg == lts_segments[merge_j]
        IN  IF /\ merged # <<>>
               /\ merged[Len(merged)].speaker = seg.speaker
               /\ seg.start - merged[Len(merged)].end < 300
            THEN merged' = [merged EXCEPT ![Len(merged)].end = seg.end]
            ELSE merged' = Append(merged, seg)]_vars

\* C8: the merge pass applied to the list labels_to_segments returns gives
\* that list again, and no two adjacent returned segments have the same
\* speaker and a gap below 0.3 s.
C8_MergeIdempotent ==
    pc = "lts_returned" =>
        /\ MergePass(merged) = merged
        /\ \A k \in 1..(Len(merged) - 1) :
              ~(/\ merged[k].speaker = merged[k + 1].speaker
                /\ merged[k + 1].start - merged[k].end < 300)

\* a return after a merge, two segments left
C8_Witness ==
    /\ pc = "lts_returned"
    /\ Len(lts_segments) = 3
    /\ Len(merged) = 2

\* the derived label of processed frame i
LabelAt(i) == SpeakerLabel(labels[i])

\* the processed frames that start a maximal run of speech frames with one
\* label
RunStarts ==
    {i \in 1..ZipLen :
        /\ speech_mask[i]
        /\ i = 1 \/ ~speech_mask[i - 1] \/ LabelAt(i - 1) # LabelAt(i)}

\* the frames after i that end the run of i
RunEnders(i) ==
    {k \in (i + 1)..ZipLen : ~speech_mask[k] \/ LabelAt(k) # LabelAt(i)}

FirstOf(K) == CHOOSE k \in K : \A j \in K : k <= j

\* the position of the run starting at i among the runs
RunRank(i) == Cardinality({r \in RunStarts : r <= i})

LoopDone == pc \in {"lts_merge", "lts_returned"}

\* one segment per run, in order, starting at the run's first frame and
\* closed at the frame that ends the run
SegmentsAreRuns ==
    LoopDone =>
        /\ Len(lts_segments) = Cardinality(RunStarts)
        /\ \A i \in RunStarts :
              LET seg == lts_segments[RunRank(i)]
              IN  /\ seg.speaker = LabelAt(i)
                  /\ seg.start = times[i] - HalfHop(hop_length)
                  /\ RunEnders(i) # {} =>
                        seg.end = times[FirstOf(RunEnders(i))] - HalfHop(hop_length)

InLoop == pc = "lts_loop" /\ frame_i <= ZipLen

\* the transitions of one frame
FrameTransitions ==
    /\ (InLoop /\ speech_mask[frame_i] /\ LabelAt(frame_i) = current_speaker)
        => UNCHANGED <<current_speaker, segment_start, lts_segments>>
    /\ (InLoop /\ speech_mask[frame_i] /\ LabelAt(frame_i) # current_speaker
            /\ current_speaker # None)
        => /\ Len(lts_segments') = Len(lts_segments) + 1
           /\ segment_start' = TimeOf(lts_segments'[Len(lts_segments')].end)
           /\ current_speaker' = LabelAt(frame_i)
    /\ (InLoop /\ ~speech_mask[frame_i])
        => current_speaker' = None /\ segment_start' = NoTime

\* C9: before the merge pass there is exactly one segment per maximal run of
\* consecutive speech frames with one derived label, from centre_i - hop/2 of
\* the run's first frame i to centre_k - hop/2 of the frame k that ends it; a
\* speech frame with the open segment's label changes nothing, a label change
\* opens the next segment where the previous one was closed, and a silence
\* frame resets the state to (None, None).
C9_OneSegmentPerRun == []SegmentsAreRuns /\ [][FrameTransitions]_vars

\* two runs of different labels back to back, then silence
C9_Witness ==
    /\ pc = "lts_merge"
    /\ ZipLen = 4
    /\ RunStarts = {1, 3}
    /\ ~speech_mask[4]
    /\ Len(lts_segments) = 2
    /\ lts_segments[1].end = lts_segments[2].start

\* C10: every opened segment is emitted exactly once, and a segment still open
\* after the last processed frame is closed at that frame's centre + hop/2.
C10_FinalClose ==
    LoopDone =>
        /\ Len(lts_segments) = Cardinality(RunStarts)
        /\ \A i \in RunStarts :
              RunEnders(i) = {} =>
                  lts_segments[RunRank(i)].end =
                      times[ZipLen] + HalfHop(hop_length)

\* find_best_mapping has just returned from the permutation search
Searched ==
    pc = "fbm_returned" /\ Len(pred_speakers) > 0 /\ Len(gt_speakers) > 0
        /\ HasVoiced(gt_frames)

\* the positions of the candidates that attain the maximum accuracy
Optima ==
    LET accs == CandidateAccs
    IN  {k \in DOMAIN accs : \A j \in DOMAIN accs : ~FracGT(accs[j], accs[k])}

\* the result is the function find_best_mapping of the four arguments
ResultIsFunctionOfInputs ==
    pc = "fbm_returned" =>
        LET r == find_best_mapping(pred_speakers, gt_speakers, pred_frames,
                                   gt_frames)
        IN  mapping = r[1] /\ accuracy = r[2]

IdRank == [GA |-> 0, S0 |-> 1, S1 |-> 2, S2 |-> 3]

\* sorted(gs)[0]
SortedFirst(gs) ==
    CHOOSE g \in {gs[i] : i \in 1..Len(gs)} :
        \A i \in 1..Len(gs) : IdRank[g] <= IdRank[gs[i]]

\* the loop of the branch n_pred > n_gt has just tried a candidate
TriedPermPred == pc = "fbm_perm_pred" /\ perm_k > 1

\* the tuple of predicted ids of the candidate just tried
TriedPerm == permutations(pred_speakers, Len(gt_speakers))[perm_k - 1]

\* the candidate just tried maps every predicted id, the selected ones
\* positionally onto all ground-truth ids and the others to default
FillsWith(default) ==
    LET m == cand.mapping
        perm == TriedPerm
        selected == {perm[i] : i \in 1..Len(perm)}
    IN  /\ DOMAIN m = {pred_speakers[i] : i \in 1..Len(pred_speakers)}
        /\ Len(perm) = Len(gt_speakers)
        /\ \A i \in 1..Len(perm) : m[perm[i]] = gt_speakers[i]
        /\ \A p \in (DOMAIN m) \ selected : m[p] = default

\* C12 as stated: with more predicted than ground-truth ids every candidate
\* maps the selected predicted ids positionally onto all ground-truth ids and
\* every other predicted id to the first ground-truth id in sorted order.
C12_FillsWithSortedFirst == TriedPermPred => FillsWith(SortedFirst(gt_speakers))

\* C12 amended: with more predicted than ground-truth ids every candidate
\* maps the selected predicted ids positionally onto all ground-truth ids and
\* every other predicted id to the first id of the ground-truth list as given.
C12_FillsWithListFirst == TriedPermPred => FillsWith(gt_speakers[1])

\* a candidate of 3 predicted ids on a ground-truth list that is not sorted
C12_Witness ==
    /\ TriedPermPred
    /\ Len(pred_speakers) = 3
    /\ gt_speakers = <<"S0", "GA">>
    /\ cand.mapping[CHOOSE p \in DOMAIN cand.mapping :
                        \A i \in 1..2 : TriedPerm[i] # p] = "S0"

\* the list ps without the id x
Without(ps, x) == SelectSeq(ps, LAMBDA p : p # x)

\* the predicted id x is no ground-truth id and no frame predicted as x is
\* correct under the returned mapping
NeverMatches(x) ==
    /\ \A i \in 1..Len(gt_speakers) : gt_speakers[i] # x
    /\ \A i \in 1..Len(pred_frames) :
          pred_frames[i] = x =>
              \/ i > Len(gt_frames)
              \/ MapGet(mapping, x, x) # gt_frames[i]

\* the accuracy find_best_mapping returns for the same grids and the
\* predicted ids other than x
RestrictedAccuracy(x) ==
    find_best_mapping(Without(pred_speakers, x), gt_speakers, pred_frames,
                      gt_frames)[2]

ThreeVsTwo == Searched /\ Len(pred_speakers) = 3 /\ Len(gt_speakers) = 2

\* C13: with 3 predicted and 2 ground-truth ids and a predicted id that never
\* matches any ground truth, the returned accuracy is strictly below the one
\* returned for the same grids with the other two predicted ids only.
C13_ExcessPenalty ==
    ThreeVsTwo =>
        \A k \in 1..Len(pred_speakers) :
            NeverMatches(pred_speakers[k]) =>
                FracGT(RestrictedAccuracy(pred_speakers[k]), accuracy)

\* the ground-truth speech frames with a non-silence prediction
BothSpeech ==
    {i \in GtSpeech : i <= Len(pred_frames) /\ pred_frames[i] # None}

\* those of them whose predicted label is a key of the mapping with the
\* ground-truth label as its value
CorrectThroughMapping ==
    {i \in BothSpeech :
        /\ pred_frames[i] \in DOMAIN mapping
        /\ mapping[pred_frames[i]] = gt_frames[i]}

\* C14: a predicted label counts as correct only through the mapping: the
\* numerator of compute_accuracy counts the frames whose predicted label is a
\* key of the mapping with the ground-truth label as its value, and
\* compute_der_components counts every other frame where both sides speak as
\* speaker confusion; a label that is no key is never correct.
C14_OnlyThroughMapping ==
    /\ pc \in {"score_acc", "scored"} =>
          accuracy[1] = Cardinality(CorrectThroughMapping)
    /\ pc = "scored" =>
          der_components.speaker_confusion =
              Cardinality(BothSpeech \ CorrectThroughMapping)

\* the grid fr after the speaker of seg is written into the slots i (0-based)
\* with 0 <= i < len(fr) and floor(start / frame_size) <= i <
\* ceil(end / frame_size), and into no other slot
ClippedWrite(fr, seg) ==
    [k \in 1..Len(fr) |->
        IF FloorExact(seg.start) <= k - 1 /\ k - 1 < CeilExact(seg.end)
        THEN seg.speaker
        ELSE fr[k]]

\* C15: the grid has ceil(duration / frame_size) slots, and the loop writes
\* each segment's speaker into exactly the slots of the grid that lie in
\* [floor(start / frame_size), ceil(end / frame_size)), whatever the segment's
\* position relative to [0, duration), without raising an error.
C15_ClippedWrites ==
    /\ [](pc \in {"stf_loop", "stf_returned", "stf_error"} =>
            Len(frames) = CeilExact(duration))
    /\ [][(pc = "stf_loop" /\ seg_i <= Len(segments)) =>
            /\ pc' = "stf_loop"
            /\ frames' = ClippedWrite(frames, segments[seg_i])]_vars

\* the last slot of the run of equal labels that starts at slot i
RunEnd(fr, i) ==
    CHOOSE j \in i..Len(fr) :
        /\ \A k \in i..j : fr[k] = fr[i]
        /\ j = Len(fr) \/ fr[j + 1] # fr[i]

\* the maximal runs of equal non-silence labels of the grid fr from slot i
\* on, as segments
RECURSIVE RunsFrom(_, _)
RunsFrom(fr, i) ==
    IF i > Len(fr) THEN <<>>
    ELSE IF fr[i] = None THEN RunsFrom(fr, i + 1)
    ELSE LET j == RunEnd(fr, i)
         IN  <<[speaker |-> fr[i],
                start |-> (i - 1) * FrameSizeMs,
                end |-> j * FrameSizeMs]>> \o RunsFrom(fr, j + 1)

\* sorted, non-overlapping, inside [0, duration), boundaries on multiples of
\* frame_size, at least one frame between consecutive segments
WellFormed ==
    /\ \A k \in 1..Len(segments) :
          /\ segments[k].start % FrameSizeMs = 0
          /\ segments[k].end % FrameSizeMs = 0
          /\ 0 <= segments[k].start
          /\ segments[k].start < segments[k].end
          /\ segments[k].end <= duration
    /\ \A k \in 1..(Len(segments) - 1) :
          segments[k + 1].start - segments[k].end >= FrameSizeMs

\* C16: for a well-formed segment list the maximal runs of equal non-silence
\* labels of the grid segments_to_frames returns are the segments of the list,
\* in order, with their speakers, starts and ends.
C16_RoundTrip ==
    (pc = "stf_returned" /\ WellFormed) => RunsFrom(frames, 1) = segments

\* the three arrays do not all have the same length
LengthMismatch ==
    Len(labels) # Len(times) \/ Len(labels) # Len(speech_mask)

\* C17: on arrays of different lengths labels_to_segments processes no frame,
\* emits no segment and does not return.
C17_FailFastOnMismatch ==
    LengthMismatch =>
        /\ pc = "lts_loop"
        /\ frame_i = 1
        /\ lts_segments = <<>>
        /\ merged = <<>>

\* a negative duration, or a segment that ends before it starts
Malformed ==
    \/ duration < 0
    \/ \E k \in 1..Len(segments) : segments[k].end < segments[k].start

\* C18: segments_to_frames returns no grid for malformed input.
C18_MalformedRejected == Malformed => pc # "stf_returned"

\* the positions of the predicted grid where the ground truth is silence (or
\* has ended)
GtSilent == {i \in 1..Len(pred_frames) : FrameAt(gt_frames, i) = None}

\* the predicted grids that differ from pred_frames at one position where the
\* ground truth is silence; every change confined to such positions is a
\* sequence of these
SilenceEdits ==
    {[pred_frames EXCEPT ![i] = l] :
        i \in GtSilent, l \in (ScorePredIds \cup {None})}

\* find_best_mapping returns the same pair for every grid of SilenceEdits as
\* for pred_frames, whatever the id lists
BestMappingIgnoresEdits ==
    \A ps \in DistinctSeqs(ScorePredIds), gs \in DistinctSeqs(GtIds) :
        LET r == find_best_mapping(ps, gs, pred_frames, gt_frames)
        IN  \A pf \in SilenceEdits :
                find_best_mapping(ps, gs, pf, gt_frames) = r

\* C19: a change of the predicted labels at positions where the ground truth
\* is silence leaves compute_accuracy unchanged for every mapping, and with it
\* the pair find_best_mapping returns for any id lists, while
\* compute_der_components counts each such position with a non-silence
\* prediction once in false_alarm.  (find_best_mapping takes no mapping: its
\* part is evaluated once per pair of grids, where the scorer's mapping is
\* empty.)
C19_FalseAlarmsOnlyInDer ==
    pc = "scored" =>
        /\ \A pf \in SilenceEdits :
              compute_accuracy(pf, gt_frames, mapping) = accuracy
        /\ mapping = EmptyMapping => BestMappingIgnoresEdits
        /\ der_components.false_alarm =
              Cardinality({i \in GtSilent : pred_frames[i] # None})

\* a scored grid with a correct frame and two false alarms, one of them past
\* the end of the ground truth
C19_Witness ==
    /\ pc = "scored"
    /\ Len(pred_frames) = 3 /\ Len(gt_frames) = 2
    /\ gt_frames[2] = None
    /\ accuracy = <<1, 1>>
    /\ der_components.false_alarm = 2

\* the frame indices of the union of both grids
AllFrames == 1..Max2(Len(pred_frames), Len(gt_frames))

\* the class of frame i: the mapped prediction is mapping.get(label, label)
FrameClass(i) ==
    LET g == FrameAt(gt_frames, i)
        p == FrameAt(pred_frames, i)
    IN  IF g # None /\ p = None THEN "missed_speech"
        ELSE IF g = None /\ p # None THEN "false_alarm"
        ELSE IF g = None THEN "both_silent"
        ELSE IF MapGet(mapping, p, p) # g THEN "speaker_confusion"
        ELSE "correct"

CountOf(class) == Cardinality({i \in AllFrames : FrameClass(i) = class})

\* C20: compute_der_components counts every frame of the union of both grids
\* in exactly one class: its missed_speech, false_alarm and speaker_confusion
\* are the numbers of frames of those classes, total_speech_frames is the
\* number of ground-truth frames that are not silence, and
\* total_speech_frames = correct + missed_speech + speaker_confusion with
\* correct the numerator of compute_accuracy for the same mapping; all counts
\* are non-negative.
C20_DerClassification ==
    pc = "scored" =>
        LET d == der_components
        IN  /\ d.missed_speech = CountOf("missed_speech")
            /\ d.false_alarm = CountOf("false_alarm")
            /\ d.speaker_confusion = CountOf("speaker_confusion")
            /\ accuracy[1] = CountOf("correct")
            /\ d.total_speech_frames = Cardinality(GtSpeech)
            /\ d.total_speech_frames =
                  accuracy[1] + d.missed_speech + d.speaker_confusion
            /\ d.missed_speech >= 0 /\ d.false_alarm >= 0
            /\ d.speaker_confusion >= 0 /\ d.total_speech_frames >= 0

\* one correct frame, one confused, one missed past the end of the predicted
\* grid
C20_Witness ==
    /\ pc = "scored"
    /\ Len(gt_frames) = 3 /\ Len(pred_frames) = 2
    /\ accuracy = <<1, 3>>
    /\ der_components.speaker_confusion = 1
    /\ der_components.missed_speech = 1
    /\ der_components.total_speech_frames = 3

\* the sum of the cells of the returned matrix that lie in the set cells
RECURSIVE SumCells(_)
SumCells(cells) ==
    IF cells = {} THEN 0
    ELSE LET c == CHOOSE x \in cells : TRUE
         IN  confusion[c] + SumCells(cells \ {c})

MatrixCols == AllIds \cup {Miss}

\* C21: compute_confusion_matrix increments one cell per non-silence
\* ground-truth frame and none for the others: each row sums to the number of
\* ground-truth frames of its speaker, the "<miss>" column to missed_speech,
\* the diagonal to the numerator of compute_accuracy and the remaining cells
\* to speaker_confusion, for the same grids and mapping.
C21_ConfusionMatrixSums ==
    pc = "score_done" =>
        /\ \A g \in AllIds :
              SumCells({g} \X MatrixCols) =
                  Cardinality({i \in 1..Len(gt_frames) : gt_frames[i] = g})
        /\ SumCells(AllIds \X {Miss}) = der_components.missed_speech
        /\ SumCells({<<g, g>> : g \in AllIds}) = accuracy[1]
        /\ SumCells({c \in AllIds \X AllIds : c[1] # c[2]}) =
              der_components.speaker_confusion
        /\ SumCells(AllIds \X MatrixCols) = Cardinality(GtSpeech)

\* a matrix with a miss, a diagonal cell and a cell off the diagonal
C21_Witness ==
    /\ pc = "score_done"
    /\ SumCells(AllIds \X {Miss}) = 1
    /\ SumCells({<<g, g>> : g \in AllIds}) = 1
    /\ SumCells({c \in AllIds \X AllIds : c[1] # c[2]}) = 1

\* the elements of a list
Elems(l) == {l[i] : i \in 1..Len(l)}

\* C22: the mapping evaluate returns has its keys in the predicted "speakers"
\* list and its values in the ground-truth "speakers" list, and
\* predicted_speakers, ground_truth_speakers and speaker_count_match are the
\* lengths of those lists and their equality, whatever speakers the segments
\* name.
C22_UsesExplicitSpeakerLists ==
    pc = "eval_returned" =>
        /\ DOMAIN result.mapping \subseteq Elems(pred_speakers)
        /\ \A p \in DOMAIN result.mapping :
              result.mapping[p] \in Elems(gt_speakers)
        /\ result.predicted_speakers = Len(pred_speakers)
        /\ result.ground_truth_speakers = Len(gt_speakers)
        /\ result.speaker_count_match = (Len(pred_speakers) = Len(gt_speakers))

\* a returned mapping where the predicted list names a speaker of no segment
\* and the segments name a speaker that is not in the list
C22_Witness ==
    /\ pc = "eval_returned"
    /\ result.mapping # EmptyMapping
    /\ \E k \in 1..Len(pred_segments) :
          pred_segments[k].speaker \notin Elems(pred_speakers)
    /\ \E p \in Elems(pred_speakers) :
          \A k \in 1..Len(pred_segments) : pred_segments[k].speaker # p
    /\ ~result.speaker_count_match

\* the frames the speech mask marks as speech
SpeechFrames == {i \in 1..Len(speech_mask) : speech_mask[i]}

\* C23: labels_to_segments returns the empty list when no frame is a speech
\* frame, and the single segment [centre - hop/2, centre + hop/2] when
\* exactly one frame is, wherever it lies.
C23_ZeroOrOneSpeechFrame ==
    pc = "lts_returned" =>
        /\ SpeechFrames = {} => merged = <<>>
        /\ \A i \in SpeechFrames :
              SpeechFrames = {i} =>
                  /\ Len(merged) = 1
                  /\ i <= Len(times)
                  /\ merged[1].start = times[i] - HalfHop(hop_length)
                  /\ merged[1].end = times[i] + HalfHop(hop_length)

\* the arguments of the running call
Arguments ==
    <<segments, duration, pred_speakers, gt_speakers, pred_frames, gt_frames,
      labels, times, speech_mask, hop_length>>

\* what each function has returned is the value of its operator on the
\* arguments
ReturnsFunctionOfArguments ==
    /\ pc = "stf_returned" =>
          segments_to_frames(segments, duration) =
              [raised |-> FALSE, frames |-> frames]
    /\ pc = "stf_error" => segments_to_frames(segments, duration).raised
    /\ pc = "fbm_returned" =>
          <<mapping, accuracy>> =
              find_best_mapping(pred_speakers, gt_speakers, pred_frames,
                                gt_frames)
    /\ pc = "score_acc" =>
          accuracy = compute_accuracy(pred_frames, gt_frames, mapping)
    /\ pc \in {"scored", "score_done"} =>
          der_components =
              compute_der_components(pred_frames, gt_frames, mapping)
    /\ pc = "score_done" =>
          confusion = compute_confusion_matrix(pred_frames, gt_frames, mapping,
                                               AllIds, MatrixCols)
    /\ pc = "lts_returned" =>
          merged = labels_to_segments(labels, times, speech_mask, hop_length)

\* C24: no step of segments_to_frames, find_best_mapping, compute_accuracy,
\* compute_der_components, compute_confusion_matrix or labels_to_segments
\* changes the arguments of the call (nor, in the three scoring functions,
\* the mapping passed in), and what each returns is a function of its
\* arguments alone, so that a second call on the same arguments returns the
\* same.
C24_PureFunctions ==
    /\ []ReturnsFunctionOfArguments
    /\ [][Arguments' = Arguments]_vars
    /\ [][(pc \in {"score_call", "score_acc", "scored"}) =>
             (mapping' = mapping)]_vars

\* the three step-by-step functions have returned on arguments that made
\* them write
C24_Witness ==
    \/ pc = "lts_returned" /\ Len(merged) = 2 /\ Len(lts_segments) = 3
    \/ pc = "stf_returned" /\ Len(segments) = 2 /\ frames = <<"S0", "S1">>
    \/ pc = "fbm_returned" /\ Len(pred_speakers) = 3 /\ accuracy = <<1, 2>>

\* no two keys of m have the same value
Injective(m) == \A p, q \in DOMAIN m : m[p] = m[q] => p = q

\* C25: after a search (non-empty id lists, a ground truth with a non-silence
\* frame) the returned mapping is one of the enumerated candidates: it is
\* defined on every predicted speaker id and, when there are no more
\* predicted than ground-truth ids, it is injective.
C25_ReturnsCandidate ==
    Searched =>
        /\ \E k \in 1..Len(Candidates(pred_speakers, gt_speakers)) :
              mapping = Candidates(pred_speakers, gt_speakers)[k]
        /\ DOMAIN mapping = Elems(pred_speakers)
        /\ Len(pred_speakers) <= Len(gt_speakers) => Injective(mapping)

\* grid g read as Silence past its end
Padded(g, i) == IF i \in 1..Len(g) THEN g[i] ELSE None

\* the indices compute_der_components visits
UnionRange == 1..Max2(Len(pred_frames), Len(gt_frames))

\* C26: compute_der_components counts over the indices of the longer grid,
\* reading the shorter grid as Silence past its end: false_alarm is the number
\* of indices with a predicted speaker and ground-truth Silence, missed_speech
\* the number with a ground-truth speaker and predicted Silence, and
\* total_speech_frames the number with a ground-truth speaker; every index
\* read lies inside its grid.
C26_UnionLength ==
    pc \in {"scored", "score_done"} =>
        /\ der_components.false_alarm =
              Cardinality({i \in UnionRange : /\ Padded(pred_frames, i) # None
                                              /\ Padded(gt_frames, i) = None})
        /\ der_components.missed_speech =
              Cardinality({i \in UnionRange : /\ Padded(gt_frames, i) # None
                                              /\ Padded(pred_frames, i) = None})
        /\ der_components.total_speech_frames =
              Cardinality({i \in UnionRange : Padded(gt_frames, i) # None})
        /\ der_components.speaker_confusion =
              Cardinality({i \in UnionRange :
                              /\ Padded(gt_frames, i) # None
                              /\ Padded(pred_frames, i) # None
                              /\ MapGet(mapping, Padded(pred_frames, i),
                                        Padded(pred_frames, i)) #
                                     Padded(gt_frames, i)})

\* both overhangs have been scored: a predicted speaker past the end of the
\* ground truth, and a ground-truth speaker past the end of the prediction
C26_Witness ==
    \/ /\ pc = "scored"
       /\ Len(pred_frames) = 3 /\ Len(gt_frames) = 1
       /\ pred_frames[3] # None
       /\ der_components.false_alarm >= 1
    \/ /\ pc = "scored"
       /\ Len(gt_frames) = 3 /\ Len(pred_frames) = 1
       /\ gt_frames[3] # None
       /\ der_components.missed_speech >= 1

\* the frames of the zip that are not speech
SilentFrames == {i \in 1..ZipLen : ~speech_mask[i]}

\* the frames of the zip that are speech
VoicedFrames == {i \in 1..ZipLen : speech_mask[i]}

\* C27: the list labels_to_segments returns is the one it returns for the
\* label array with any other cluster id at any one frame that is not speech
\* (and so, one frame after the other, for every label array that agrees on
\* the speech frames), and every returned segment carries the label of a
\* speech frame: an id at a frame that is not speech creates no segment.
C27_SilentLabelsIgnored ==
    pc = "lts_returned" =>
        /\ \A i \in SilentFrames : \A c \in ClusterIds :
              labels_to_segments([labels EXCEPT ![i] = c], times, speech_mask,
                                 hop_length) = merged
        /\ \A k \in 1..Len(merged) :
              \E i \in VoicedFrames :
                  SpeakerLabel(labels[i]) = merged[k].speaker

\* a return where only SPEAKER_01 spoke and a frame that is not speech
\* carries cluster id 0, as the silent frames of run_diarization do
C27_Witness ==
    /\ pc = "lts_returned"
    /\ merged # <<>>
    /\ \A i \in VoicedFrames : labels[i] = 1
    /\ \E i \in SilentFrames : labels[i] = 0 /\ i > 1 /\ i < ZipLen

\* the returned segments that contain the whole interval of frame i
Containing(i) ==
    {k \in 1..Len(merged) :
        /\ merged[k].start <= times[i] - HalfHop(hop_length)
        /\ times[i] + HalfHop(hop_length) <= merged[k].end}

\* C28: on three arrays of one length, with centres one hop apart, every
\* returned segment has start < end, each segment ends no later than the
\* next one starts (so the list is ordered by start and free of overlap), and
\* the interval [centre - hop/2, centre + hop/2] of every speech frame lies
\* inside exactly one returned segment, whose speaker is the frame's label.
C28_SegmentsCoverSpeech ==
    (pc = "lts_returned" /\ ~LengthMismatch) =>
        /\ \A k \in 1..Len(merged) : merged[k].start < merged[k].end
        /\ \A k \in 1..(Len(merged) - 1) :
              merged[k].end <= merged[k + 1].start
        /\ \A i \in VoicedFrames :
              /\ Cardinality(Containing(i)) = 1
              /\ \A k \in Containing(i) :
                    merged[k].speaker = SpeakerLabel(labels[i])

\* a return on four frames of one length: two speakers back to back, a
\* silent frame, and the first speaker again
C28_Witness ==
    /\ pc = "lts_returned"
    /\ ~LengthMismatch
    /\ Len(labels) = 4
    /\ speech_mask = <<TRUE, TRUE, FALSE, TRUE>>
    /\ labels[1] # labels[2]
    /\ labels[4] = labels[1]
    /\ Len(merged) = 3

\* the hop run_diarization passes, in milliseconds
DiarizationHopMs == 250

\* a call as run_diarization makes it: arrays cut to one length, hop 0.25 s
DiarizationCall == hop_length = DiarizationHopMs /\ ~LengthMismatch

\* speech frames i < j of one speaker with, between them, a frame of another
\* speaker or two frames in a row that are not speech
Separated(i, j) ==
    \/ \E d \in (i + 1)..(j - 1) :
          speech_mask[d] /\ labels[d] # labels[i]
    \/ \E d \in (i + 1)..(j - 2) : ~speech_mask[d] /\ ~speech_mask[d + 1]

\* C29: with a hop of 0.25 s, two runs of one speaker with exactly one frame
\* that is not speech between them are returned as one segment that spans
\* both, and two speech frames of one speaker with two or more frames in a
\* row that are not speech, or a frame of another speaker, between them are
\* never in the same segment.
C29_MergeAcrossOneFrame ==
    (pc = "lts_returned" /\ DiarizationCall) =>
        /\ \A i \in VoicedFrames :
              (/\ i + 2 \in VoicedFrames
               /\ ~speech_mask[i + 1]
               /\ labels[i + 2] = labels[i]) =>
                  Containing(i) \cap Containing(i + 2) # {}
        /\ \A i, j \in VoicedFrames :
              (i < j /\ labels[i] = labels[j] /\ Separated(i, j)) =>
                  Containing(i) \cap Containing(j) = {}

\* a return with a hop of 0.25 s on speech, one silent frame, speech of the
\* same speaker: a single segment from the first frame to the last
C29_Witness ==
    /\ pc = "lts_returned"
    /\ DiarizationCall
    /\ speech_mask = <<TRUE, FALSE, TRUE>>
    /\ labels[1] = labels[3]
    /\ Len(lts_segments) = 2
    /\ merged = <<[speaker |-> SpeakerLabel(labels[1]),
                   start |-> times[1] - HalfHop(hop_length),
                   end |-> times[3] + HalfHop(hop_length)]>>

\* the speakers of the segments written
WrittenSpeakers == {output.segments[k].speaker : k \in 1..Len(output.segments)}

\* C30: the "speakers" list written by the label tool lists exactly the
\* speakers of the segments written, and undo takes the most recently added
\* remaining entry off the list, leaving an empty list as it is.
C30_SpeakersOfWrittenSegments ==
    /\ [](output.written => Elems(output.speakers) = WrittenSpeakers)
    /\ [][Tool_Undo =>
             tool_segments' =
                 IF tool_segments = <<>> THEN <<>>
                 ELSE SubSeq(tool_segments, 1, Len(tool_segments) - 1)]_vars

=============================================================================
